---------------------------- MODULE Spec2Model ----------------------------
(***************************************************************************)
(* A model of the shapefilers crate: the geometry (.shp) loader of         *)
(* src/src/shapefile.rs and the attribute table (.dbf) loader and field    *)
(* decoder of src/src/dbf.rs.                                              *)
(*                                                                         *)
(* Files are sequences of bytes (0..255).  The loaders are translated      *)
(* statement by statement; a Rust panic (slice out of range, unwrap of an  *)
(* error, capacity overflow) is the outcome "panic".  Arithmetic whose     *)
(* overflow depends on the build (panic with overflow checks, wrap         *)
(* without) reads the variable overflowChecks, chosen in the initial       *)
(* state.  TLC's integers are 32 bits wide, so an i32 is an integer, a u32 *)
(* is a pair <<high 16 bits, low 16 bits>> and a usize is a record.        *)
(***************************************************************************)
EXTENDS Integers, Sequences, FiniteSets, TLC

VARIABLES
    overflowChecks,  \* TRUE: a build with overflow checks (debug profile)
    shpBytes,        \* the geometry file on disk
    pc,              \* "idle" | "open" | "loop" | "returned_ok" | "returned_err" | "panicked"
    err,             \* the error from_file returned, or None
    shape_type,      \* from_file's shape_type (the header's), or None
    bounding_box,    \* from_file's bounding_box (the header's), or None
    buffer_slice,    \* from_file's buffer_slice: the bytes not yet decoded
    shapes,          \* from_file's shapes: the Shapes decoded so far
    dbfBytes,        \* the table file on disk
    dbfpc,           \* "idle" | "start" | "fields" | "loaded" | "failed" | "aborted"
    dbfHeader,       \* DBF::from_file's values of the header
    fields,          \* DBF::from_file's fields: the descriptors read so far
    field_byte_offset,  \* DBF::from_file's field_byte_offset
    dbf,             \* what DBF::from_file returned (Ok: the DBF), or its panic
    call             \* the last field_by_index / field_by_name call

vars == <<overflowChecks, shpBytes, pc, err, shape_type, bounding_box, buffer_slice,
          shapes, dbfBytes, dbfpc, dbfHeader, fields, field_byte_offset, dbf, call>>

shpVars == <<shpBytes, pc, err, shape_type, bounding_box, buffer_slice, shapes>>
dbfVars == <<dbfBytes, dbfpc, dbfHeader, fields, field_byte_offset, dbf, call>>

None == "None"

(***************************************************************************)
(* Bytes, slices and fixed-width integers                                  *)
(***************************************************************************)

\* Rust's &bytes[a..b] panics unless a <= b <= bytes.len().
InRange(bytes, a, b) == a <= b /\ b <= Len(bytes)

\* &bytes[a..b], for a range InRange accepts (offsets from 0).
Slice(bytes, a, b) == SubSeq(bytes, a + 1, b)

\* &bytes[a..]
SliceFrom(bytes, a) == SubSeq(bytes, a + 1, Len(bytes))

Signed8(b) == IF b >= 128 THEN b - 256 ELSE b

\* byteorder's LittleEndian::read_i32 of 4 bytes.
LE_read_i32(b) == (b[1] + 256 * b[2] + 65536 * b[3]) + 16777216 * Signed8(b[4])

\* byteorder's BigEndian::read_i32 of 4 bytes.
BE_read_i32(b) == (b[4] + 256 * b[3] + 65536 * b[2]) + 16777216 * Signed8(b[1])

\* byteorder's BigEndian::read_u32 of 4 bytes, as <<high half, low half>>.
BE_read_u32(b) == <<256 * b[1] + b[2], 256 * b[3] + b[4]>>

\* byteorder's LittleEndian::read_u32 of 4 bytes, as <<high half, low half>>.
LE_read_u32(b) == <<256 * b[4] + b[3], 256 * b[2] + b[1]>>

\* byteorder's LittleEndian::read_u16 of 2 bytes.
LE_read_u16(b) == b[1] + 256 * b[2]

\* byteorder's LittleEndian::read_f64: the 64 bits, most significant byte first.
LE_read_f64(b) == <<b[8], b[7], b[6], b[5], b[4], b[3], b[2], b[1]>>

Pow2_30 == 1024 * 1024 * 1024

\* `x as usize` for an i32 x on a 64-bit target: sign extension, so a negative
\* x becomes 2^64 + x.  wrap says whether 2^64 is added to v.
AsUsize(x) == [wrap |-> x < 0, v |-> x]

Usize(n) == [wrap |-> FALSE, v |-> n]

\* a <= b on usize values.
UsizeLE(a, b) ==
    \/ ~a.wrap /\ b.wrap
    \/ a.wrap = b.wrap /\ a.v <= b.v


(***************************************************************************)
(* shapefile.rs: shape types, points, bounding boxes                       *)
(***************************************************************************)

\* enum ShapeType: a shape type is its discriminant.
ST_Null == 0
ST_Point == 1
ST_Polyline == 3
ST_Polygon == 5
ST_MultiPoint == 6

\* The discriminants of enum ShapeType.
ShapeTypeCodes == {0, 1, 3, 5, 6, 11, 13, 15, 18, 21, 23, 25, 28, 31}

\* A from_i32 that takes every code for a shape type.
ShapeType_from_i32_Mut(code) == [some |-> TRUE, v |-> code]

\* ShapeType::from_i32 (enum_from_primitive!): None for any other code.
ShapeType_from_i32(code) ==
    IF code \in ShapeTypeCodes THEN [some |-> TRUE, v |-> code] ELSE [some |-> FALSE]

\* Point::from_bytes
Point_from_bytes(bytes) ==
    [x |-> LE_read_f64(Slice(bytes, 0, 8)), y |-> LE_read_f64(Slice(bytes, 8, 16))]

\* BoundingBox::from_bytes
BoundingBox_from_bytes(bytes) ==
    [min |-> [x |-> LE_read_f64(Slice(bytes, 0, 8)),
              y |-> LE_read_f64(Slice(bytes, 8, 16))],
     max |-> [x |-> LE_read_f64(Slice(bytes, 16, 24)),
              y |-> LE_read_f64(Slice(bytes, 24, 32))]]

\* BoundingBox::from_point
BoundingBox_from_point(p) == [min |-> p, max |-> p]

\* BoundingBox::nans
BoundingBox_nans == [min |-> [x |-> "NaN", y |-> "NaN"], max |-> [x |-> "NaN", y |-> "NaN"]]

Panic == [tag |-> "Panic"]

\* read_points: Vec::with_capacity panics (capacity overflow) for a count that
\* a negative i32 was cast to; &bytes[start..stop] panics once 16 * (i + 1)
\* passes the slice's end.
read_points(bytes, num_points) ==
    IF num_points.wrap \/ num_points.v > Len(bytes) \div 16
    THEN Panic
    ELSE [tag |-> "Ok",
          points |-> [i \in 1..num_points.v |->
                        Point_from_bytes(Slice(bytes, 16 * (i - 1), 16 * i))]]

\* The for loop of read_parts, from iteration i on (last is num_parts - 1).
\* A loop that takes a part's end from the part's own start.
read_parts_loop_Mut(bytes, i, last, parts) ==
    parts \o [j \in 1..(last - i) |->
                <<AsUsize(LE_read_i32(Slice(bytes, 4 * (i + j - 1), 4 * (i + j)))),
                  AsUsize(LE_read_i32(Slice(bytes, 4 * (i + j - 1), 4 * (i + j))))>>]

RECURSIVE read_parts_loop(_, _, _, _)
read_parts_loop(bytes, i, last, parts) ==
    IF i >= last THEN parts
    ELSE read_parts_loop(bytes, i + 1, last,
            Append(parts,
                   <<AsUsize(LE_read_i32(Slice(bytes, 4 * i, 4 * (i + 1)))),
                     AsUsize(LE_read_i32(Slice(bytes, 4 * (i + 1), 4 * (i + 2))))>>))

\* A last push that starts the last part at 0 whatever came before.
read_parts_last_Mut(parts, num_points) == Append(parts, <<Usize(0), num_points>>)

\* What read_parts pushes after its loop.
read_parts_last(parts, num_points) ==
    IF parts = <<>>
    THEN Append(parts, <<Usize(0), num_points>>)
    ELSE Append(parts, <<parts[Len(parts)][2], num_points>>)

\* read_parts.  Vec::with_capacity(num_parts) panics for a count that a
\* negative i32 was cast to.  num_parts - 1 with num_parts = 0 panics under
\* overflow checks and is usize::MAX without them; the loop then reads 4-byte
\* slices until one passes the end of the (finite) slice, and panics there.
\* For num_parts >= 2 the loop's last read ends at 4 * num_parts.
read_parts(bytes, num_parts, num_points) ==
    IF num_parts.wrap THEN Panic
    ELSE IF num_parts.v = 0 THEN Panic
    ELSE IF num_parts.v >= 2 /\ num_parts.v > Len(bytes) \div 4 THEN Panic
    ELSE [tag |-> "Ok",
          parts |-> read_parts_last(
                      read_parts_loop(bytes, 0, num_parts.v - 1, <<>>), num_points)]

\* 2 * x in i32: [ok |-> FALSE] is a panic.
Mul2_i32(x, checks) ==
    IF x >= Pow2_30
    THEN IF checks THEN [ok |-> FALSE] ELSE [ok |-> TRUE, v |-> 2 * ((x - Pow2_30) - Pow2_30)]
    ELSE IF x < -Pow2_30
    THEN IF checks THEN [ok |-> FALSE] ELSE [ok |-> TRUE, v |-> 2 * ((x + Pow2_30) + Pow2_30)]
    ELSE [ok |-> TRUE, v |-> 2 * x]

\* Line 214: *bytes = bytes.split_at((record_length + 8) as usize).1
\* record_length + 8 overflows i32 above 2^31 - 9: a panic under overflow
\* checks, and without them a negative number, which `as usize` makes larger
\* than any slice, so split_at panics.  A negative sum panics the same way.
ChopRecord(bytes, record_length, shape) ==
    IF record_length > 2147483647 - 8 THEN Panic
    ELSE IF record_length + 8 < 0 \/ record_length + 8 > Len(bytes) THEN Panic
    ELSE [tag |-> "Ok", shape |-> shape, rest |-> SliceFrom(bytes, record_length + 8)]

MkShape(t, bb, points, parts) ==
    [shape_type |-> t, bounding_box |-> bb, points |-> points, parts |-> parts]

\* The arms of `match shape_type` that the last arm (`_ =>`) does not catch.
IsImplemented(t) == t \in {ST_Null, ST_Point, ST_MultiPoint, ST_Polyline, ST_Polygon}

\* The Polyline | Polygon arm of Shape::from_bytes.
DecodePoly(bytes, t) ==
    IF ~InRange(bytes, 12, 44) \/ ~InRange(bytes, 44, 48) \/ ~InRange(bytes, 48, 52)
    THEN Panic
    ELSE LET num_parts == AsUsize(LE_read_i32(Slice(bytes, 44, 48)))
             num_points == AsUsize(LE_read_i32(Slice(bytes, 48, 52)))
             pr == read_parts(SliceFrom(bytes, 52), num_parts, num_points)
         IN  IF pr.tag = "Panic" THEN Panic
             ELSE LET points_start == 52 + 4 * num_parts.v
                  IN  IF points_start > Len(bytes) THEN Panic
                      ELSE LET pts == read_points(SliceFrom(bytes, points_start), num_points)
                           IN  IF pts.tag = "Panic" THEN Panic
                               ELSE [tag |-> "Ok",
                                     shape |-> MkShape(t,
                                        BoundingBox_from_bytes(Slice(bytes, 12, 44)),
                                        pts.points, pr.parts)]

\* The MultiPoint arm.
DecodeMultiPoint(bytes, t) ==
    IF ~InRange(bytes, 12, 44) \/ ~InRange(bytes, 44, 48) THEN Panic
    ELSE LET num_points == AsUsize(LE_read_i32(Slice(bytes, 44, 48)))
             pts == read_points(SliceFrom(bytes, 48), num_points)
         IN  IF pts.tag = "Panic" THEN Panic
             ELSE [tag |-> "Ok",
                   shape |-> MkShape(t, BoundingBox_from_bytes(Slice(bytes, 12, 44)),
                                     pts.points,
                                     <<<<Usize(0), Usize(Len(pts.points))>>>>)]

\* The Point arm.
DecodePoint(bytes, t) ==
    IF ~InRange(bytes, 12, 28) THEN Panic
    ELSE LET p == Point_from_bytes(Slice(bytes, 12, 28))
         IN  [tag |-> "Ok",
              shape |-> MkShape(t, BoundingBox_from_point(p), <<p>>,
                                <<<<Usize(0), Usize(1)>>>>)]

\* The Null arm.
DecodeNull(t) == [tag |-> "Ok", shape |-> MkShape(t, BoundingBox_nans, <<>>, <<>>)]

\* `match shape_type` of Shape::from_bytes.
DecodeMatch(bytes, t) ==
    IF ~IsImplemented(t) THEN [tag |-> "Err", err |-> "shape type not implemented yet"]
    ELSE IF t = ST_Null THEN DecodeNull(t)
    ELSE IF t = ST_Point THEN DecodePoint(bytes, t)
    ELSE IF t = ST_MultiPoint THEN DecodeMultiPoint(bytes, t)
    ELSE DecodePoly(bytes, t)

\* Shape::from_bytes: Ok with the Shape and the bytes left, Err, or a panic.
Shape_from_bytes(bytes, checks) ==
    IF ~InRange(bytes, 4, 8) THEN Panic
    ELSE LET rl == Mul2_i32(BE_read_i32(Slice(bytes, 4, 8)), checks)
         IN  IF ~rl.ok THEN Panic
             ELSE IF ~InRange(bytes, 8, 12) THEN Panic
             ELSE LET t == ShapeType_from_i32(LE_read_i32(Slice(bytes, 8, 12)))
                  IN  IF ~t.some THEN [tag |-> "Err", err |-> "invalid shape type"]
                      ELSE LET d == DecodeMatch(bytes, t.v)
                           IN  IF d.tag # "Ok" THEN d
                               ELSE ChopRecord(bytes, rl.v, d.shape)


(***************************************************************************)
(* ShapeFile::from_file                                                    *)
(***************************************************************************)

\* 0x270a as a u32.
Magic == <<0, 9994>>

\* x * 2 in u32 (line 75): [ok |-> FALSE] is a panic.
Mul2_u32(x, checks) ==
    IF x[1] >= 32768
    THEN IF checks THEN [ok |-> FALSE]
         ELSE [ok |-> TRUE,
               v |-> <<(2 * x[1] + (2 * x[2]) \div 65536) % 65536, (2 * x[2]) % 65536>>]
    ELSE [ok |-> TRUE, v |-> <<2 * x[1] + (2 * x[2]) \div 65536, (2 * x[2]) % 65536>>]

\* metadata.len() == x as u64, for a file of len bytes (len < 2^31).
LenEqualsU32(len, x) == x[1] < 32768 /\ x[1] * 65536 + x[2] = len

\* Lines 66-92 of from_file: what it has done when it reaches the loop, or how
\* it ended before it.
FromFileHeader(file, checks) ==
    IF Len(file) < 100 THEN [pc |-> "returned_err", err |-> "io: failed to fill whole buffer"]
    ELSE LET header == Slice(file, 0, 100)
         IN  IF BE_read_u32(Slice(header, 0, 4)) # Magic
             THEN [pc |-> "returned_err", err |-> "invalid .shp file, magic number is wrong"]
             ELSE LET file_length == Mul2_u32(BE_read_u32(Slice(header, 24, 28)), checks)
                  IN  IF ~file_length.ok THEN [pc |-> "panicked", err |-> None]
                      ELSE IF ~LenEqualsU32(Len(file), file_length.v)
                      THEN [pc |-> "returned_err",
                            err |-> "file length field doesn't match header"]
                      ELSE LET t == ShapeType_from_i32(LE_read_i32(Slice(header, 32, 36)))
                           IN  IF ~t.some
                               THEN [pc |-> "returned_err", err |-> "invalid shape type"]
                               ELSE [pc |-> "loop", err |-> None,
                                     shape_type |-> t.v,
                                     bounding_box |-> BoundingBox_from_bytes(Slice(header, 36, 68)),
                                     buffer |-> SliceFrom(file, 100)]

\* The longest shapes vector the model follows (a loop that consumes nothing
\* would push for ever).
MaxShapes == 4

\* from_file up to its loop.
ReadHeader ==
    /\ pc = "open"
    /\ LET r == FromFileHeader(shpBytes, overflowChecks)
       IN  /\ pc' = r.pc
           /\ err' = r.err
           /\ IF r.pc = "loop"
              THEN /\ shape_type' = r.shape_type
                   /\ bounding_box' = r.bounding_box
                   /\ buffer_slice' = r.buffer
              ELSE UNCHANGED <<shape_type, bounding_box, buffer_slice>>
    /\ UNCHANGED <<overflowChecks, shpBytes, shapes, dbfVars>>

\* One iteration of `while !buffer_slice.is_empty()`.
DecodeRecord ==
    /\ pc = "loop"
    /\ buffer_slice # <<>>
    /\ Len(shapes) < MaxShapes
    /\ LET r == Shape_from_bytes(buffer_slice, overflowChecks)
       IN  \/ /\ r.tag = "Ok"
              /\ shapes' = Append(shapes, r.shape)
              /\ buffer_slice' = r.rest
              /\ UNCHANGED <<pc, err>>
           \/ /\ r.tag = "Err"
              /\ pc' = "returned_err"
              /\ err' = r.err
              /\ UNCHANGED <<shapes, buffer_slice>>
           \/ /\ r.tag = "Panic"
              /\ pc' = "panicked"
              /\ UNCHANGED <<err, shapes, buffer_slice>>
    /\ UNCHANGED <<overflowChecks, shpBytes, shape_type, bounding_box, dbfVars>>

\* The loop's exit and Ok(ShapeFile{..}): the ShapeFile returned is
\* [bounding_box, shape_type, shapes].
ReturnShapeFile ==
    /\ pc = "loop"
    /\ buffer_slice = <<>>
    /\ pc' = "returned_ok"
    /\ UNCHANGED <<overflowChecks, shpBytes, err, shape_type, bounding_box,
                   buffer_slice, shapes, dbfVars>>


(***************************************************************************)
(* Geometry files the model loads                                          *)
(***************************************************************************)

Zeros(n) == [i \in 1..n |-> 0]

\* The two's complement halves of an i32.
I32Halves(x) ==
    IF x >= 0 THEN <<x \div 65536, x % 65536>>
    ELSE LET y == (x + Pow2_30) + Pow2_30
         IN  <<(y \div 65536) + 32768, y % 65536>>

BE32(h) == <<h[1] \div 256, h[1] % 256, h[2] \div 256, h[2] % 256>>
LE32(h) == <<h[2] % 256, h[2] \div 256, h[1] % 256, h[1] \div 256>>

RECURSIVE Flatten(_)
Flatten(ss) == IF ss = <<>> THEN <<>> ELSE ss[1] \o Flatten(Tail(ss))

\* The 16 bytes of point j.
PointBytes(j) == <<j, 0, 0, 0, 0, 0, 240, 63>> \o <<j, 1, 0, 0, 0, 0, 0, 64>>

BoxBytes == Flatten([i \in 1..4 |-> <<i, 0, 0, 0, 0, 0, 36, 64>>])

\* A record: number, content length (16-bit words), shape type, payload.
RecordBytes(content_length, code, payload) ==
    <<0, 0, 0, 1>> \o BE32(I32Halves(content_length)) \o LE32(I32Halves(code)) \o payload

\* The content length the format asks for.
FitLength(payload) == (4 + Len(payload)) \div 2

FitRecord(code, payload) == RecordBytes(FitLength(payload), code, payload)

PolyPayload(num_parts, num_points, starts, points) ==
    BoxBytes \o LE32(I32Halves(num_parts)) \o LE32(I32Halves(num_points))
        \o Flatten([i \in 1..Len(starts) |-> LE32(I32Halves(starts[i]))])
        \o Flatten([j \in 1..points |-> PointBytes(j)])

MultiPointPayload(num_points, points) ==
    BoxBytes \o LE32(I32Halves(num_points)) \o Flatten([j \in 1..points |-> PointBytes(j)])

\* Bounds of the files.
MaxParts == 2
MaxPoints == 8
MaxRecords == 2

StartValues == {0, 4, 9}
PointCounts == {1, MaxPoints}

StartLists == UNION {[1..k -> StartValues] : k \in 0..MaxParts}

\* Records of the five implemented types, each with the content length the
\* format asks for.
PolyRecords ==
    {FitRecord(ST_Polygon, PolyPayload(Len(st), n, st, n)) : st \in StartLists, n \in PointCounts}
    \cup {FitRecord(ST_Polyline, PolyPayload(2, MaxPoints, <<0, 4>>, MaxPoints)),
          FitRecord(ST_Polyline, PolyPayload(1, 1, <<4>>, 1)),
          FitRecord(ST_Polygon, PolyPayload(2, MaxPoints, <<-1, 4>>, MaxPoints)),
          \* a negative count, and fewer points than declared
          FitRecord(ST_Polygon, PolyPayload(-1, 1, <<0>>, 1)),
          FitRecord(ST_Polygon, PolyPayload(1, -1, <<0>>, 1)),
          FitRecord(ST_Polygon, PolyPayload(1, 2, <<0>>, 1)),
          \* one part declared and its start index missing
          FitRecord(ST_Polygon, PolyPayload(1, 0, <<>>, 0))}

PlainRecords ==
    {FitRecord(ST_Null, <<>>), FitRecord(ST_Point, PointBytes(7)),
     FitRecord(ST_Point, <<1, 2, 3, 4>>),
     FitRecord(ST_MultiPoint, MultiPointPayload(0, 0)),
     FitRecord(ST_MultiPoint, MultiPointPayload(2, 2)),
     FitRecord(ST_MultiPoint, MultiPointPayload(-1, 2)),
     FitRecord(ST_MultiPoint, MultiPointPayload(3, 2))}

\* Records whose type is not implemented or not a shape type.
OtherTypeRecords ==
    {FitRecord(c, PointBytes(7)) : c \in {11, 13, 15, 18, 21, 23, 25, 28, 31, 2, 99, -1}}

\* Content lengths that do not fit the payload.
OddLengths == {-4, -3, 0, 3, Pow2_30, (Pow2_30 - 4) + Pow2_30, -Pow2_30 - 4}

OddLengthRecords ==
    {RecordBytes(c, ST_Null, <<>>) : c \in OddLengths}
    \cup {RecordBytes(c, ST_Point, PointBytes(7)) : c \in {-4, 0, 9}}
    \cup {RecordBytes(c, t, PointBytes(7)) : c \in {Pow2_30, -4}, t \in {11, 99}}
    \cup {<<0, 0, 0, 1, 0, 0>>, <<0, 0, 0, 1, 0, 0, 0, 2, 0, 0>>}

LastRecords == PolyRecords \cup PlainRecords \cup OtherTypeRecords \cup OddLengthRecords

\* The records before the last are well formed.
FirstRecords == {FitRecord(ST_Null, <<>>), FitRecord(ST_Point, PointBytes(7))}

RecordLists ==
    {<<>>} \cup
    UNION {{Flatten(pre) \o last : pre \in [1..k -> FirstRecords], last \in LastRecords} :
           k \in 0..(MaxRecords - 1)}

\* A header: the magic number or not, the word count, the shape type.
HeaderBytes(magicOk, words, code) ==
    (IF magicOk THEN <<0, 0, 39, 10>> ELSE <<0, 0, 39, 11>>) \o Zeros(20)
        \o BE32(words) \o <<232, 3, 0, 0>> \o LE32(I32Halves(code)) \o BoxBytes \o Zeros(32)

\* The word count of a file of len bytes: "exact" is len / 2, "less" one word
\* fewer, "wrap" is len / 2 + 2^31, whose double is len modulo 2^32.
Words(len, how) ==
    LET h == I32Halves(len \div 2)
    IN  CASE how = "exact" -> h
          [] how = "less" -> I32Halves(len \div 2 - 1)
          [] how = "wrap" -> <<h[1] + 32768, h[2]>>

HeaderChoices ==
    {<<TRUE, "exact", ST_Polygon>>, <<TRUE, "exact", ST_Point>>, <<TRUE, "exact", 15>>,
     <<TRUE, "exact", 2>>, <<TRUE, "less", ST_Polygon>>, <<TRUE, "wrap", ST_Polygon>>,
     <<FALSE, "exact", ST_Polygon>>}

ShpFile(h, records) == HeaderBytes(h[1], Words(100 + Len(records), h[2]), h[3]) \o records

ShpInputs ==
    {ShpFile(h, rs) : h \in HeaderChoices, rs \in RecordLists}
    \cup {SubSeq(ShpFile(<<TRUE, "exact", ST_Polygon>>, <<>>), 1, 50)}

DbfIdle ==
    /\ dbfBytes = <<>>
    /\ dbfpc = "idle"
    /\ dbfHeader = [tag |-> "None"]
    /\ fields = <<>>
    /\ field_byte_offset = 0
    /\ dbf = [tag |-> "None"]
    /\ call = [op |-> "none"]

InitShp ==
    /\ overflowChecks \in BOOLEAN
    /\ shpBytes \in ShpInputs
    /\ pc = "open"
    /\ err = None
    /\ shape_type = None
    /\ bounding_box = None
    /\ buffer_slice = <<>>
    /\ shapes = <<>>
    /\ DbfIdle

NextShp == ReadHeader \/ DecodeRecord \/ ReturnShapeFile

SpecShp == InitShp /\ [][NextShp]_vars


(***************************************************************************)
(* What the record at the head of a byte stream declares                   *)
(***************************************************************************)

HeadContentLength(b) == BE_read_i32(Slice(b, 4, 8))
HeadCode(b) == LE_read_i32(Slice(b, 8, 12))
HeadNumParts(b) == LE_read_i32(Slice(b, 44, 48))
HeadNumPoints(b) == LE_read_i32(Slice(b, 48, 52))
\* The i-th starting index (from 0).
HeadStart(b, i) == LE_read_i32(Slice(b, 52 + 4 * i, 56 + 4 * i))

HeadIsPoly(b) == Len(b) >= 52 /\ HeadCode(b) \in {ST_Polyline, ST_Polygon}

\* 2 * x lies in the i32 range.
DoubleFitsI32(x) == -Pow2_30 <= x /\ x < Pow2_30

\* This step of from_file's loop pushed a Shape.
PushedShape == pc = "loop" /\ Len(shapes') = Len(shapes) + 1

LastShape(ss) == ss[Len(ss)]

ZMCodes == {11, 13, 15, 18, 21, 23, 25, 28, 31}

(***************************************************************************)
(* Claims about the geometry loader                                        *)
(***************************************************************************)

\* C2 as stated: a Polyline or Polygon record declaring k >= 1 parts with
\* starting indices start[0..k-1] and n points decodes to exactly k parts,
\* part i = (start[i], start[i+1]) for i < k-1 and the last part = (start[k-1], n).
C2_PartsFromStarts ==
    [][(PushedShape /\ HeadIsPoly(buffer_slice) /\ HeadNumParts(buffer_slice) >= 1) =>
        LET k == HeadNumParts(buffer_slice)
            n == HeadNumPoints(buffer_slice)
            parts == LastShape(shapes').parts
        IN  /\ Len(parts) = k
            /\ \A i \in 1..(k - 1) :
                 parts[i] = <<AsUsize(HeadStart(buffer_slice, i - 1)),
                              AsUsize(HeadStart(buffer_slice, i))>>
            /\ parts[k] = <<AsUsize(HeadStart(buffer_slice, k - 1)), AsUsize(n)>>]_vars

\* C2 amended: the same, except that a record declaring exactly one part
\* decodes to the single part (0, n) whatever its starting index is; for
\* k >= 2 the last part is (start[k-1], n).
C2_PartsFromStartsAmended ==
    [][(PushedShape /\ HeadIsPoly(buffer_slice) /\ HeadNumParts(buffer_slice) >= 1) =>
        LET k == HeadNumParts(buffer_slice)
            n == HeadNumPoints(buffer_slice)
            parts == LastShape(shapes').parts
        IN  /\ Len(parts) = k
            /\ \A i \in 1..(k - 1) :
                 parts[i] = <<AsUsize(HeadStart(buffer_slice, i - 1)),
                              AsUsize(HeadStart(buffer_slice, i))>>
            /\ parts[k] = <<IF k = 1 THEN Usize(0)
                                     ELSE AsUsize(HeadStart(buffer_slice, k - 1)),
                            AsUsize(n)>>]_vars

\* C2's case: a Polygon with parts starting at [0, 4] over 8 points was
\* decoded to [(0,4), (4,8)].
C2_Witness ==
    \E i \in 1..Len(shapes) :
        /\ shapes[i].shape_type = ST_Polygon
        /\ Len(shapes[i].points) = 8
        /\ shapes[i].parts = <<<<Usize(0), Usize(4)>>, <<Usize(4), Usize(8)>>>>

\* The record at the head of b is a whole, well-formed Polyline or Polygon
\* record declaring zero parts and n >= 0 points.
HeadIsZeroPartPoly(b) ==
    /\ HeadIsPoly(b)
    /\ HeadNumParts(b) = 0
    /\ HeadNumPoints(b) >= 0
    /\ HeadNumPoints(b) <= (Len(b) - 52) \div 16
    /\ HeadContentLength(b) = 22 + 8 * HeadNumPoints(b)

\* C3: a Polyline or Polygon record that declares zero parts and n points
\* decodes successfully into a Shape with exactly one part, (0, n).
C3_ZeroPartsOnePart ==
    [][(pc = "loop" /\ HeadIsZeroPartPoly(buffer_slice)) =>
        /\ Len(shapes') = Len(shapes) + 1
        /\ LastShape(shapes').parts = <<<<Usize(0), AsUsize(HeadNumPoints(buffer_slice))>>>>
        /\ Len(LastShape(shapes').points) = HeadNumPoints(buffer_slice)]_vars

\* Each part's end is the next part's start.
PartsContiguous(parts) ==
    \A i \in 1..(Len(parts) - 1) : parts[i][2] = parts[i + 1][1]

\* The parts invariant of the data model: contiguous, start <= end, from 0 to
\* the number of points.
PartsInvariant(sh) ==
    /\ PartsContiguous(sh.parts)
    /\ \A i \in 1..Len(sh.parts) : UsizeLE(sh.parts[i][1], sh.parts[i][2])
    /\ IF sh.parts = <<>> THEN sh.points = <<>>
       ELSE /\ sh.parts[1][1] = Usize(0)
            /\ sh.parts[Len(sh.parts)][2] = Usize(Len(sh.points))

\* C4 as stated: every Shape of a returned ShapeFile satisfies the parts
\* invariant.
C4_PartsInvariant ==
    pc = "returned_ok" => \A i \in 1..Len(shapes) : PartsInvariant(shapes[i])

\* C4 amended: in every Shape of a returned ShapeFile the parts are contiguous
\* and the last part ends at the number of points; a Null shape has no parts
\* and no points, any other shape at least one part; a shape with a single
\* part has the part (0, number of points).  (With two or more parts the
\* first start and start <= end are whatever the record declared.)
C4_PartsContiguousToEnd ==
    pc = "returned_ok" =>
        \A i \in 1..Len(shapes) :
            LET sh == shapes[i]
            IN  /\ PartsContiguous(sh.parts)
                /\ IF sh.shape_type = ST_Null
                   THEN sh.parts = <<>> /\ sh.points = <<>>
                   ELSE /\ sh.parts # <<>>
                        /\ sh.parts[Len(sh.parts)][2] = Usize(Len(sh.points))
                /\ Len(sh.parts) = 1 => sh.parts[1][1] = Usize(0)

\* C4's case: a ShapeFile was returned with a Polygon of two parts.
C4_Witness ==
    /\ pc = "returned_ok"
    /\ \E i \in 1..Len(shapes) :
          shapes[i].shape_type = ST_Polygon /\ Len(shapes[i].parts) = 2

\* C5 as stated: every Shape of a returned ShapeFile has the file's declared
\* shape type or is Null (a record of another type makes the load fail).
C5_TypeMatchesHeader ==
    pc = "returned_ok" =>
        \A i \in 1..Len(shapes) :
            shapes[i].shape_type = shape_type \/ shapes[i].shape_type = ST_Null

\* C5 amended: every Shape decoded has one of the five implemented types,
\* whether or not that is the file's declared type; a record whose code is no
\* shape type code is never decoded: the load ends with the error "invalid
\* shape type", or, in a build with overflow checks and for a content length
\* whose double is outside i32, with a panic.
C5_TypeImplemented ==
    /\ \A i \in 1..Len(shapes) : IsImplemented(shapes[i].shape_type)
    /\ (Len(buffer_slice) >= 12 /\ HeadCode(buffer_slice) \notin ShapeTypeCodes) =>
          \/ pc = "loop"
          \/ pc = "returned_err" /\ err = "invalid shape type"
          \/ /\ pc = "panicked"
             /\ overflowChecks
             /\ ~DoubleFitsI32(HeadContentLength(buffer_slice))

\* C5's case: a ShapeFile declared Polygon was returned holding a Point.
C5_Witness ==
    /\ pc = "returned_ok"
    /\ shape_type = ST_Polygon
    /\ \E i \in 1..Len(shapes) : shapes[i].shape_type = ST_Point

\* C5's other case: a record of code 99 ended the load with the error.
C5_WitnessInvalid ==
    /\ pc = "returned_err"
    /\ err = "invalid shape type"
    /\ Len(shapes) = 1
    /\ Len(buffer_slice) >= 12
    /\ HeadCode(buffer_slice) = 99

\* C7: when the record the loop is at carries a Z/M-variant or MultiPatch code,
\* from_file returns the unsupported-shape-type error (no ShapeFile, no Shape
\* for that record).
C7_UnsupportedIsError ==
    (Len(buffer_slice) >= 12 /\ HeadCode(buffer_slice) \in ZMCodes) =>
        \/ pc = "loop"
        \/ pc = "returned_err" /\ err = "shape type not implemented yet"

\* C9: a file with the magic number whose word count w has 2 * w (as a
\* mathematical integer) different from the file's length fails with the
\* length-mismatch error.
C9_LengthMismatchIsError ==
    LET w == BE_read_u32(Slice(shpBytes, 24, 28))
        doubleIsLen == /\ w[1] < 16384
                       /\ 2 * (w[1] * 65536 + w[2]) = Len(shpBytes)
    IN  (/\ Len(shpBytes) >= 100
         /\ BE_read_u32(Slice(shpBytes, 0, 4)) = Magic
         /\ ~doubleIsLen) =>
            \/ pc = "open"
            \/ pc = "returned_err" /\ err = "file length field doesn't match header"

\* C10: each call of Shape::from_bytes that returns a Shape removes exactly
\* 8 + 2 * content_length bytes from the front of the remaining stream, at
\* least 1 and at most the remaining length, so the stream strictly shrinks.
C10_RecordConsumesBytes ==
    [][PushedShape =>
        LET consumed == Len(buffer_slice) - Len(buffer_slice')
        IN  /\ consumed >= 1
            /\ consumed <= Len(buffer_slice)
            /\ buffer_slice' = SliceFrom(buffer_slice, consumed)
            /\ (consumed - 8) % 2 = 0
            /\ (consumed - 8) \div 2 = HeadContentLength(buffer_slice)]_vars


(***************************************************************************)
(* dbf.rs: DBF::from_file                                                  *)
(***************************************************************************)

\* The field types from_file accepts: b'C', b'D', b'F', b'L', b'M', b'N'.
FieldTypes == {67, 68, 70, 76, 77, 78}

\* A u32 as a number, for one below 2^31.
U32Value(x) == x[1] * 65536 + x[2]

\* parse_date_binary
parse_date_binary(buffer) ==
    [year |-> 1900 + buffer[1], month |-> buffer[2], day |-> buffer[3]]

\* str_from_u8_nul_utf8: the bytes before the first NUL, or all of them.
str_from_u8_nul_utf8(utf8_src) ==
    LET nuls == {i \in 1..Len(utf8_src) : utf8_src[i] = 0}
        nul_range_end == IF nuls = {} THEN Len(utf8_src)
                         ELSE (CHOOSE i \in nuls : \A j \in nuls : i <= j) - 1
    IN  Slice(utf8_src, 0, nul_range_end)

\* Line 64: (num_header_bytes - 33) / 32 in u16; [ok |-> FALSE] is a panic.
NumFields(num_header_bytes, checks) ==
    IF num_header_bytes < 33
    THEN IF checks THEN [ok |-> FALSE]
         ELSE [ok |-> TRUE, v |-> ((num_header_bytes + 65536) - 33) \div 32]
    ELSE [ok |-> TRUE, v |-> (num_header_bytes - 33) \div 32]

\* An offset that counts fields, not bytes.
NextFieldOffset_Mut(offset, field_length, checks) == [ok |-> TRUE, v |-> offset + 1]

\* Line 87: field_byte_offset += field_length as u16; [ok |-> FALSE] is a panic.
NextFieldOffset(offset, field_length, checks) ==
    IF offset + field_length > 65535
    THEN IF checks THEN [ok |-> FALSE]
         ELSE [ok |-> TRUE, v |-> (offset + field_length) % 65536]
    ELSE [ok |-> TRUE, v |-> offset + field_length]

\* One iteration of the loop of lines 68-88, the i-th (from 0): the
\* descriptors are read one after the other from offset 32.
ReadFieldDescriptor(file, i, offset, checks) ==
    IF 32 + 32 * (i + 1) > Len(file)
    THEN [tag |-> "Err", err |-> "io: failed to fill whole buffer"]
    ELSE LET fd_buffer == Slice(file, 32 + 32 * i, 32 + 32 * (i + 1))
             field_name == str_from_u8_nul_utf8(Slice(fd_buffer, 0, 11))
             field_length == fd_buffer[17]
             field_type == fd_buffer[12]
         IN  IF field_type \notin FieldTypes
             THEN [tag |-> "Err", err |-> "invalid field type"]
             ELSE LET next == NextFieldOffset(offset, field_length, checks)
                  IN  IF ~next.ok THEN Panic
                      ELSE [tag |-> "Ok",
                            field |-> [name |-> field_name,
                                       field_type |-> field_type,
                                       field_length |-> field_length,
                                       field_start |-> offset],
                            field_byte_offset |-> next.v]

\* Lines 98-109: seek to num_header_bytes + 1, then num_records reads of
\* bytes_per_record bytes each.  A read of no bytes succeeds anywhere; any
\* other read fails past the end of the file.
ReadRecords(file, num_records, num_header_bytes, bytes_per_record) ==
    LET start == num_header_bytes + 1
    IN  IF /\ num_records > 0
           /\ bytes_per_record > 0
           /\ num_records > (Len(file) - start) \div bytes_per_record
        THEN [tag |-> "Err", err |-> "io: failed to fill whole buffer"]
        ELSE [tag |-> "Ok",
              records |-> [j \in 1..num_records |->
                             [data |-> Slice(file, start + (j - 1) * bytes_per_record,
                                             start + j * bytes_per_record)]]]

\* Lines 52-67 of DBF::from_file: the header's values, or how it ended.
ReadTableHeader(file, checks) ==
    IF Len(file) < 32 THEN [tag |-> "Err", err |-> "io: failed to fill whole buffer"]
    ELSE LET header_start == Slice(file, 0, 32)
             num_fields == NumFields(LE_read_u16(Slice(header_start, 8, 10)), checks)
         IN  IF ~num_fields.ok THEN Panic
             ELSE [tag |-> "Ok",
                   date |-> parse_date_binary(Slice(header_start, 1, 4)),
                   num_records |-> LE_read_u32(Slice(header_start, 4, 8)),
                   num_header_bytes |-> LE_read_u16(Slice(header_start, 8, 10)),
                   bytes_per_record |-> LE_read_u16(Slice(header_start, 10, 12)),
                   num_fields |-> num_fields.v]

\* Lines 89-112: the DBF returned, or how from_file ended.  A record count of
\* 2^31 or more is beyond the model's integers: Vec::with_capacity then asks
\* for 64 GiB or more, and the outcome is taken to be the allocation
\* failure's abort.
FinishTable(file, h, fs) ==
    IF h.num_records[1] >= 32768 THEN Panic
    ELSE LET rs == ReadRecords(file, U32Value(h.num_records),
                               h.num_header_bytes, h.bytes_per_record)
         IN  IF rs.tag # "Ok" THEN rs
             ELSE [tag |-> "Ok", last_modified |-> h.date, fields |-> fs,
                   records |-> rs.records]

Ended(r) == IF r.tag = "Ok" THEN "loaded" ELSE IF r.tag = "Err" THEN "failed" ELSE "aborted"

\* DBF::from_file up to its first loop.
OpenTable ==
    /\ dbfpc = "start"
    /\ LET h == ReadTableHeader(dbfBytes, overflowChecks)
       IN  IF h.tag = "Ok"
           THEN /\ dbfHeader' = h
                /\ dbfpc' = "fields"
                /\ UNCHANGED dbf
           ELSE /\ dbf' = h
                /\ dbfpc' = Ended(h)
                /\ UNCHANGED dbfHeader
    /\ UNCHANGED <<overflowChecks, dbfBytes, fields, field_byte_offset, call, shpVars>>

\* One iteration of `for _ in 0..num_fields`.
ReadField ==
    /\ dbfpc = "fields"
    /\ Len(fields) < dbfHeader.num_fields
    /\ LET r == ReadFieldDescriptor(dbfBytes, Len(fields), field_byte_offset, overflowChecks)
       IN  IF r.tag = "Ok"
           THEN /\ fields' = Append(fields, r.field)
                /\ field_byte_offset' = r.field_byte_offset
                /\ UNCHANGED <<dbf, dbfpc>>
           ELSE /\ dbf' = r
                /\ dbfpc' = Ended(r)
                /\ UNCHANGED <<fields, field_byte_offset>>
    /\ UNCHANGED <<overflowChecks, dbfBytes, dbfHeader, call, shpVars>>

\* The rest of from_file: the records are read and the DBF is returned.
ReadTableRecords ==
    /\ dbfpc = "fields"
    /\ Len(fields) = dbfHeader.num_fields
    /\ dbf' = FinishTable(dbfBytes, dbfHeader, fields)
    /\ dbfpc' = Ended(dbf')
    /\ UNCHANGED <<overflowChecks, dbfBytes, dbfHeader, fields, field_byte_offset, call,
                   shpVars>>

(***************************************************************************)
(* dbf.rs: Record::field_by_index and Record::field_by_name                *)
(***************************************************************************)

\* char::is_whitespace on ASCII, which str::trim strips.
IsWhitespace(c) == c \in {9, 10, 11, 12, 13, 32}

RECURSIVE TrimStart(_)
TrimStart(s) == IF s # <<>> /\ IsWhitespace(s[1]) THEN TrimStart(Tail(s)) ELSE s

RECURSIVE TrimEnd(_)
TrimEnd(s) ==
    IF s # <<>> /\ IsWhitespace(s[Len(s)]) THEN TrimEnd(SubSeq(s, 1, Len(s) - 1)) ELSE s

\* str::trim
Trim(s) == TrimEnd(TrimStart(s))

\* str_from_u8_ws_padded: from the first byte that is not a space; from the
\* start when every byte is one.
str_from_u8_ws_padded(utf8_src) ==
    LET others == {i \in 1..Len(utf8_src) : utf8_src[i] # 32}
        first_non_space == IF others = {} THEN 0
                           ELSE (CHOOSE i \in others : \A j \in others : i <= j) - 1
    IN  SliceFrom(utf8_src, first_non_space)

IsDigit(c) == 48 <= c /\ c <= 57

\* The number a string of digits writes.
RECURSIVE DigitsValue(_)
DigitsValue(s) ==
    IF s = <<>> THEN 0 ELSE 10 * DigitsValue(SubSeq(s, 1, Len(s) - 1)) + (s[Len(s)] - 48)

\* mantissa / 10^scale without trailing zeros after the point.
RECURSIVE NormalDecimal(_, _, _)
NormalDecimal(negative, mantissa, scale) ==
    IF mantissa = 0 THEN [negative |-> FALSE, mantissa |-> 0, scale |-> 0]
    ELSE IF scale > 0 /\ mantissa % 10 = 0 THEN NormalDecimal(negative, mantissa \div 10, scale - 1)
    ELSE [negative |-> negative, mantissa |-> mantissa, scale |-> scale]

\* str::parse::<f64> on text made of a sign, digits and a point (the other
\* forms f64 accepts, an exponent, inf and nan, use letters the model's
\* fields do not hold): Sign? (Digit+ | Digit+ '.' Digit* | Digit* '.' Digit+).
ParseF64(s) ==
    LET signed == s # <<>> /\ s[1] \in {43, 45}
        body == IF signed THEN Tail(s) ELSE s
        points == {i \in 1..Len(body) : body[i] = 46}
        digits == {i \in 1..Len(body) : IsDigit(body[i])}
    IN  IF /\ digits # {}
           /\ Cardinality(points) <= 1
           /\ \A i \in 1..Len(body) : i \in digits \/ i \in points
        THEN LET point == IF points = {} THEN Len(body) + 1 ELSE CHOOSE i \in points : TRUE
                 text == SubSeq(body, 1, point - 1) \o SubSeq(body, point + 1, Len(body))
             IN  [ok |-> TRUE,
                  v |-> NormalDecimal(signed /\ s[1] = 45, DigitsValue(text),
                                      Len(body) - point + (IF points = {} THEN 1 ELSE 0))]
        ELSE [ok |-> FALSE]

\* str::parse for u32 and u8: an optional '+', then digits, within the type.
ParseUnsigned(s, max) ==
    LET body == IF s # <<>> /\ s[1] = 43 THEN Tail(s) ELSE s
    IN  IF body # <<>> /\ (\A i \in 1..Len(body) : IsDigit(body[i])) /\ DigitsValue(body) <= max
        THEN [ok |-> TRUE, v |-> DigitsValue(body)]
        ELSE [ok |-> FALSE]

\* parse_date_text: slicing panics on a buffer of fewer than 8 bytes, and each
\* unwrap panics on text that does not parse.
parse_date_text(buffer) ==
    IF Len(buffer) < 8 THEN Panic
    ELSE LET year == ParseUnsigned(Slice(buffer, 0, 4), 9999)  \* 4 digits fit u32
             month == ParseUnsigned(Slice(buffer, 4, 6), 255)
             day == ParseUnsigned(Slice(buffer, 6, 8), 255)
         IN  IF year.ok /\ month.ok /\ day.ok
             THEN [tag |-> "Ok", v |-> [year |-> year.v, month |-> month.v, day |-> day.v]]
             ELSE Panic

\* enum RecordField
RecordField(kind, v) == [tag |-> "Ok", v |-> [kind |-> kind, v |-> v]]

\* Record::field_by_index, on the record's data and its fields.
field_by_index(data, fds, index) ==
    IF index >= Len(fds) THEN Panic
    ELSE LET start == fds[index + 1].field_start
             end == start + fds[index + 1].field_length
             t == fds[index + 1].field_type
         IN  IF ~InRange(data, start, end) THEN Panic
             ELSE LET field_slice == Slice(data, start, end)
                  IN  IF t \in {67, 77}
                      THEN RecordField("Text", Trim(str_from_u8_ws_padded(field_slice)))
                      ELSE IF t = 68
                      THEN LET d == parse_date_text(field_slice)
                           IN  IF d.tag = "Ok" THEN RecordField("Date", d.v) ELSE Panic
                      ELSE IF t \in {70, 78}
                      THEN LET n == ParseF64(Trim(str_from_u8_ws_padded(field_slice)))
                           IN  IF n.ok THEN RecordField("Number", n.v) ELSE Panic
                      ELSE IF t = 76
                      THEN IF field_slice = <<>> THEN Panic
                           ELSE RecordField("Bool", field_slice[1] \in {89, 121, 84, 116})
                      ELSE Panic

\* A search that returns the last index whose name is field_name.
Position_Mut(fds, field_name, i) ==
    LET m == {j \in i..(Len(fds) - 1) : fds[j + 1].name = field_name}
    IN  IF m = {} THEN [some |-> FALSE]
        ELSE [some |-> TRUE, v |-> CHOOSE j \in m : \A k \in m : k <= j]

\* self.fields.iter().position(|s| s.name == field_name): the first index
\* (from 0) whose name is field_name.
RECURSIVE Position(_, _, _)
Position(fds, field_name, i) ==
    IF i >= Len(fds) THEN [some |-> FALSE]
    ELSE IF fds[i + 1].name = field_name THEN [some |-> TRUE, v |-> i]
    ELSE Position(fds, field_name, i + 1)

\* Option::map over a call that may panic.
MapSome(r) == IF r.tag = "Ok" THEN [tag |-> "Ok", v |-> [some |-> TRUE, v |-> r.v]] ELSE r

\* Record::field_by_name
field_by_name(data, fds, field_name) ==
    LET field_index == Position(fds, field_name, 0)
    IN  IF field_index.some THEN MapSome(field_by_index(data, fds, field_index.v))
        ELSE [tag |-> "Ok", v |-> [some |-> FALSE]]

\* A call of field_by_index on a record of the table (an index past the
\* schema's end among them).  A panic ends the process.
FieldByIndex ==
    /\ dbfpc = "loaded"
    /\ \E r \in 1..Len(dbf.records), index \in 0..Len(dbf.fields) :
          LET res == field_by_index(dbf.records[r].data, dbf.fields, index)
          IN  /\ call' = [op |-> "field_by_index", record |-> r, index |-> index,
                          name |-> <<>>, result |-> res]
              /\ dbfpc' = IF res.tag = "Panic" THEN "aborted" ELSE dbfpc
    /\ UNCHANGED <<overflowChecks, dbfBytes, dbfHeader, fields, field_byte_offset, dbf,
                   shpVars>>

\* The names the model asks for: "A", "a", "B", "NUM", "Z".
QueryNames == {<<65>>, <<97>>, <<66>>, <<78, 85, 77>>, <<90>>}

\* A call of field_by_name on a record of the table.
FieldByName ==
    /\ dbfpc = "loaded"
    /\ \E r \in 1..Len(dbf.records), field_name \in QueryNames :
          LET res == field_by_name(dbf.records[r].data, dbf.fields, field_name)
          IN  /\ call' = [op |-> "field_by_name", record |-> r, index |-> 0,
                          name |-> field_name, result |-> res]
              /\ dbfpc' = IF res.tag = "Panic" THEN "aborted" ELSE dbfpc
    /\ UNCHANGED <<overflowChecks, dbfBytes, dbfHeader, fields, field_byte_offset, dbf,
                   shpVars>>


(***************************************************************************)
(* Table files the model loads                                             *)
(***************************************************************************)

LE16(n) == <<n % 256, n \div 256>>

\* The 32-byte header: version, date (2016-02-17), record count, header
\* length, record length.
DbfHeader(num_records, num_header_bytes, bytes_per_record) ==
    <<3, 116, 2, 17>> \o LE32(I32Halves(num_records)) \o LE16(num_header_bytes)
        \o LE16(bytes_per_record) \o Zeros(20)

\* A 32-byte field descriptor.
DbfDescriptor(d) ==
    d.name \o Zeros(11 - Len(d.name)) \o <<d.type>> \o Zeros(4) \o <<d.length>> \o Zeros(15)

Desc(name, type, length) == [name |-> name, type |-> type, length |-> length]

RECURSIVE SumLengths(_)
SumLengths(ds) == IF ds = <<>> THEN 0 ELSE ds[1].length + SumLengths(Tail(ds))

\* Field content of n bytes: "1 x.Y1 x.Y...".
Filler(n) == [i \in 1..n |-> <<49, 32, 120, 46, 89>>[((i - 1) % 5) + 1]]

\* A table file as the format lays it out: header, descriptors, the 0x0D
\* terminator (and slack more bytes of header), the records, each a deletion
\* flag and its fields, and the 0x1A end mark.
DbfFile(ds, slack, contents) ==
    DbfHeader(Len(contents), 33 + 32 * Len(ds) + slack, 1 + SumLengths(ds))
        \o Flatten([i \in 1..Len(ds) |-> DbfDescriptor(ds[i])])
        \o <<13>> \o Zeros(slack)
        \o Flatten([j \in 1..Len(contents) |-> <<32>> \o contents[j]])
        \o <<26>>

\* The same with a record length that leaves the deletion flag out.
DbfFileNoFlag(ds, contents) ==
    DbfHeader(Len(contents), 33 + 32 * Len(ds), SumLengths(ds))
        \o Flatten([i \in 1..Len(ds) |-> DbfDescriptor(ds[i])])
        \o <<13, 32>> \o Flatten(contents) \o <<26>>

\* Bounds of the tables.
MaxFields == 3
MaxTableRecords == 2
NumberLength == 3

\* Fields "A" C 2, "a" N 1, "A" L 1, "B" C 0, and "B" of the invalid type X.
DescChoices ==
    {Desc(<<65>>, 67, 2), Desc(<<97>>, 78, 1), Desc(<<65>>, 76, 1), Desc(<<66>>, 67, 0),
     Desc(<<66>>, 88, 1)}

Schemas == UNION {[1..n -> DescChoices] : n \in 0..MaxFields}

FilledRecords(ds, n) == [j \in 1..n |-> Filler(SumLengths(ds))]

SchemaFiles ==
    UNION {{DbfFile(ds, 0, FilledRecords(ds, MaxTableRecords)),
            DbfFile(ds, 5, FilledRecords(ds, MaxTableRecords)),
            DbfFileNoFlag(ds, FilledRecords(ds, 1)),
            LET f == DbfFile(ds, 0, FilledRecords(ds, MaxTableRecords))
            IN  SubSeq(f, 1, Len(f) - 2)} : ds \in Schemas}

\* Tables of one record with the fields "NUM" N, "WHEN" D 8, "FLAG" L 1,
\* "ABCDEFGHIJK" F 2, "D4" D 4 and "L0" L 0.
DecodeSchema(n) ==
    <<Desc(<<78, 85, 77>>, 78, n), Desc(<<87, 72, 69, 78>>, 68, 8),
      Desc(<<70, 76, 65, 71>>, 76, 1),
      Desc(<<65, 66, 67, 68, 69, 70, 71, 72, 73, 74, 75>>, 70, 2),
      Desc(<<68, 52>>, 68, 4), Desc(<<76, 48>>, 76, 0)>>

\* ' ', '-', '.', '1', 'x'
NumberAlphabet == {32, 45, 46, 49, 120}

NumberTexts == UNION {[1..n -> NumberAlphabet] : n \in 1..NumberLength}

\* "20160217", "2016021x", "        ", "2016 217"
DateTexts ==
    {<<50, 48, 49, 54, 48, 50, 49, 55>>, <<50, 48, 49, 54, 48, 50, 49, 120>>,
     <<32, 32, 32, 32, 32, 32, 32, 32>>, <<50, 48, 49, 54, 32, 50, 49, 55>>}

DecodeContents ==
    {num \o <<50, 48, 49, 54, 48, 50, 49, 55>> \o <<84>> \o <<46, 49>> \o <<50, 48, 49, 54>> :
        num \in NumberTexts}
    \cup {<<49, 46, 48>> \o d \o <<l>> \o <<49, 48>> \o <<50, 48, 49, 54>> :
            d \in DateTexts, l \in {89, 116, 32, 63}}

DecodeFiles ==
    {DbfFile(DecodeSchema(Len(c) - 15), 0, <<c, c>>) : c \in DecodeContents}

\* Tables of n fields "A" C 255 and no records: from 258 fields on the
\* offsets pass 65535.
LongFile(n, num_header_bytes) ==
    DbfHeader(0, num_header_bytes, 1)
        \o [i \in 1..(32 * n) |-> DbfDescriptor(Desc(<<65>>, 67, 255))[((i - 1) % 32) + 1]]
        \o <<13, 26>>

LongFiles == {LongFile(n, 33 + 32 * n) : n \in {257, 258, 259}} \cup {LongFile(2047, 20)}

\* A header length below 33, and files shorter than their header says.
ShortFiles ==
    {DbfHeader(0, 20, 1) \o <<13, 26>>, SubSeq(DbfHeader(0, 33, 1), 1, 20),
     DbfHeader(0, 97, 1) \o DbfDescriptor(Desc(<<65>>, 67, 2))}

DbfInputs == SchemaFiles \cup DecodeFiles \cup LongFiles \cup ShortFiles

ShpIdle ==
    /\ shpBytes = <<>>
    /\ pc = "idle"
    /\ err = None
    /\ shape_type = None
    /\ bounding_box = None
    /\ buffer_slice = <<>>
    /\ shapes = <<>>

InitDbf ==
    /\ overflowChecks \in BOOLEAN
    /\ dbfBytes \in DbfInputs
    /\ dbfpc = "start"
    /\ dbfHeader = [tag |-> "None"]
    /\ fields = <<>>
    /\ field_byte_offset = 0
    /\ dbf = [tag |-> "None"]
    /\ call = [op |-> "none"]
    /\ ShpIdle

NextDbf == OpenTable \/ ReadField \/ ReadTableRecords \/ FieldByIndex \/ FieldByName

SpecDbf == InitDbf /\ [][NextDbf]_vars


(***************************************************************************)
(* What the table file declares                                            *)
(***************************************************************************)

DeclaredHeaderLength == LE_read_u16(Slice(dbfBytes, 8, 10))
DeclaredRecordLength == LE_read_u16(Slice(dbfBytes, 10, 12))
\* The length byte of the i-th descriptor (from 1).
DeclaredLength(i) == dbfBytes[32 * i + 17]

(***************************************************************************)
(* Claims about the table loader and the field decoder                     *)
(***************************************************************************)

\* C1 as stated: a table loaded from a header declaring N descriptors of
\* lengths L and record size R has exactly N schema entries, field_start 0
\* first, strictly increasing, field_start[i+1] = field_start[i] + L[i], and
\* field_start[N-1] + L[N-1] = R.
C1_FieldsPartitionRecord ==
    dbfpc = "loaded" =>
        LET N == (DeclaredHeaderLength - 33) \div 32
            fs == dbf.fields
        IN  /\ Len(fs) = N
            /\ N >= 1 => fs[1].field_start = 0
            /\ \A i \in 1..(N - 1) :
                 /\ fs[i].field_start < fs[i + 1].field_start
                 /\ fs[i + 1].field_start = fs[i].field_start + DeclaredLength(i)
            /\ N >= 1 => fs[N].field_start + DeclaredLength(N) = DeclaredRecordLength

\* C1 amended: a table loaded from a header of declared length H has exactly
\* N = ((H - 33) mod 2^16) div 32 schema entries, entry i of the declared
\* length L[i]; field_start is 0 first and field_start[i+1] =
\* (field_start[i] + L[i]) mod 2^16, so it grows only where L[i] > 0.  The
\* declared record size R is not compared with the fields.
C1_FieldOffsetsRunningSum ==
    dbfpc = "loaded" =>
        LET N == (((DeclaredHeaderLength + 65536) - 33) % 65536) \div 32
            fs == dbf.fields
        IN  /\ Len(fs) = N
            /\ N >= 1 => fs[1].field_start = 0
            /\ \A i \in 1..N : fs[i].field_length = DeclaredLength(i)
            /\ \A i \in 1..(N - 1) :
                 fs[i + 1].field_start = (fs[i].field_start + DeclaredLength(i)) % 65536

\* C1's case: a table of three fields and the format's record size (the
\* fields and the deletion flag) is loaded.
C1_Witness ==
    /\ dbfpc = "loaded"
    /\ Len(dbf.fields) = 3
    /\ dbf.fields[3].field_start = 3
    /\ DeclaredRecordLength = dbf.fields[3].field_start + dbf.fields[3].field_length + 1
    /\ Len(dbf.records) = 2

\* The field the last call asked for.
CalledField == dbf.fields[call.index + 1]

CalledSlice ==
    Slice(dbf.records[call.record].data, CalledField.field_start,
          CalledField.field_start + CalledField.field_length)

\* The last call asked for a Numeric or FloatingPoint field whose trimmed
\* content is no number, or for an 8-byte Date field holding a non-digit.
CalledMalformed ==
    /\ call.op = "field_by_index"
    /\ call.index < Len(dbf.fields)
    /\ InRange(dbf.records[call.record].data, CalledField.field_start,
               CalledField.field_start + CalledField.field_length)
    /\ \/ /\ CalledField.field_type \in {70, 78}
          /\ ~ParseF64(Trim(str_from_u8_ws_padded(CalledSlice))).ok
       \/ /\ CalledField.field_type = 68
          /\ CalledField.field_length = 8
          /\ \E i \in 1..8 : ~IsDigit(CalledSlice[i])

\* C6: field_by_index on a malformed Numeric, FloatingPoint or Date field
\* yields a decode error for that call, not an abort, and the table stays
\* usable.
C6_MalformedIsDecodeError ==
    CalledMalformed => call.result.tag = "Err" /\ dbfpc = "loaded"

\* The indices (from 1) of the schema entries named name.
Named(name) == {i \in 1..Len(dbf.fields) : dbf.fields[i].name = name}

\* C8: field_by_name(name) is Some(field_by_index(i)) for the first schema
\* entry i whose name is exactly name (a panic of the one is a panic of the
\* other), and None for a name the schema does not hold.
C8_ByNameIsByFirstIndex ==
    call.op = "field_by_name" =>
        IF Named(call.name) = {}
        THEN call.result = [tag |-> "Ok", v |-> [some |-> FALSE]]
        ELSE LET i == CHOOSE i \in Named(call.name) : \A j \in Named(call.name) : i <= j
                 byIndex == field_by_index(dbf.records[call.record].data, dbf.fields, i - 1)
             IN  IF byIndex.tag = "Ok"
                 THEN call.result = [tag |-> "Ok", v |-> [some |-> TRUE, v |-> byIndex.v]]
                 ELSE call.result.tag = "Panic"

\* C8's case: a name that two schema entries carry was asked for, the two
\* decode differently, and the call returned Some.
C8_Witness ==
    /\ call.op = "field_by_name"
    /\ call.result.tag = "Ok"
    /\ call.result.v.some
    /\ \E i, j \in Named(call.name) :
          /\ i < j
          /\ field_by_index(dbf.records[call.record].data, dbf.fields, i - 1)
               # field_by_index(dbf.records[call.record].data, dbf.fields, j - 1)

============================================================================
